---------------------------- MODULE Spec2Model ----------------------------
(***************************************************************************)
(* A model of Mindset_Streams: file_import.py (the association loader) and *)
(* mindset_streams.py (graph construction, shortest paths, the stream      *)
(* subgraph, the layered layout, edge colours, path classification).       *)
(*                                                                         *)
(* The program is a single-threaded batch library.  Each function is       *)
(* modelled by the actions of its own specification, whose Init draws the  *)
(* function's inputs from bounded sets:                                    *)
(*   SpecLoad     file_to_df / validate_json                               *)
(*   SpecGraph    edge_valence, create_base_graph                          *)
(*   SpecPaths    shortest_paths, bridge_graph, self-loop removal          *)
(*   SpecStream   stream_graph, from the base graph to the statistics      *)
(*   SpecColours  edge_colours                                             *)
(*   SpecType     path_type                                                *)
(*   SpecLayout   node_positions                                           *)
(* The variables of the other functions stay at their idle value.          *)
(***************************************************************************)
EXTENDS Integers, Sequences, FiniteSets, TLC

VARIABLES
    pc,                 \* position in the function being run
    \* file_to_df
    json_objects,       \* the parsed JSON array
    obj_index,          \* number of records the for loop has consumed
    data,               \* list of value lists appended so far
    printed,            \* what print() wrote: the offending record, or NoneValue
    load_result,        \* what file_to_df returned (or that it raised)
    \* edge_valence / create_base_graph
    df,                 \* the table: a sequence of rows
    G,                  \* the graph under construction
    row_index,          \* rows the iterrows loop has consumed
    \* shortest_paths / bridge_graph / stream_graph
    base_graph, source_node, target_node,
    base_paths, subgraph, sub_paths,
    node_dict, node_colour_dict, edge_colour_dict, stats_list,
    \* edge_colours
    edge_list,          \* graph.edges(data=True) in iteration order
    edge_index,         \* edges the for loop has consumed
    colour,             \* the local variable colour ("unbound" before assignment)
    colour_dict,        \* edge_colour_dict under construction
    \* path_type
    path, node_valence, path_valences, path_type_result,
    \* node_positions
    paths, node_positions_dict

loadVars   == <<json_objects, obj_index, data, printed, load_result>>
graphVars  == <<df, G, row_index>>
streamVars == <<base_graph, source_node, target_node, base_paths, subgraph,
                sub_paths, node_dict, node_colour_dict, edge_colour_dict,
                stats_list>>
colourVars == <<edge_list, edge_index, colour, colour_dict>>
typeVars   == <<path, node_valence, path_valences, path_type_result>>
layoutVars == <<paths, node_positions_dict>>
vars == <<pc, loadVars, graphVars, streamVars, colourVars, typeVars, layoutVars>>

\* Python's None, and the value of a variable no function has assigned yet.
NoneValue == [kind |-> "None"]

IdleLoad   == /\ json_objects = <<>> /\ obj_index = 0 /\ data = <<>>
              /\ printed = NoneValue /\ load_result = NoneValue
IdleGraph  == /\ df = <<>> /\ G = NoneValue /\ row_index = 0
IdleStream == /\ base_graph = NoneValue /\ source_node = "" /\ target_node = ""
              /\ base_paths = {} /\ subgraph = NoneValue /\ sub_paths = {}
              /\ node_dict = NoneValue /\ node_colour_dict = NoneValue
              /\ edge_colour_dict = NoneValue /\ stats_list = NoneValue
IdleColour == /\ edge_list = <<>> /\ edge_index = 0 /\ colour = "unbound"
              /\ colour_dict = << >>
IdleType   == /\ path = <<>> /\ node_valence = NoneValue /\ path_valences = <<>>
              /\ path_type_result = "unset"
IdleLayout == /\ paths = {} /\ node_positions_dict = NoneValue

(***************************************************************************)
(* Generic helpers.                                                        *)
(***************************************************************************)
Range(s) == {s[i] : i \in 1..Len(s)}

SeqsUpTo(S, n) == UNION {[1..k -> S] : k \in 0..n}

Max(S) == CHOOSE x \in S : \A y \in S : y <= x

(***************************************************************************)
(*                         file_import.py                                  *)
(***************************************************************************)
\* Bounds of the loader's inputs.
MaxRecords == 2      \* records in the JSON array
MaxFields == 3       \* values in one JSON object (at least one)

\* A JSON string is the sequence of its characters; any other JSON value
\* (a number, null, a list) is a value of kind "number".
JStr(chars) == [kind |-> "string", chars |-> chars]
JNumber == [kind |-> "number", chars |-> <<>>]

\* Sample values: a mixed-case word, a word with an inner blank, a word with
\* a trailing newline, and a non-string.
SampleValues ==
    { JStr(<<"D", "o", "g">>), JStr(<<"a", " ", "b">>),
      JStr(<<"c", "a", "t", "\n">>), JNumber }

\* A JSON object is the sequence of its values in key order (the keys are
\* not read by file_to_df; they are taken to hold no newline, so the
\* patternProperties key "^.*$" covers every one); a record that is no
\* object (a list, a string) has kind "array".
JObject(values) == [kind |-> "object", values |-> values]
JArray == [kind |-> "array", values |-> <<>>]

SampleRecords ==
    {JObject(v) : v \in SeqsUpTo(SampleValues, MaxFields) \ {<<>>}} \cup {JArray}

IsWhitespace(c) == c \in {" ", "\n", "\t"}

\* re.search("^[^\s]*$", s), as jsonschema's "pattern" keyword runs it: a
\* run of non-whitespace characters from the start up to "$", and Python's
\* "$" matches at the end of the string and also just before a newline
\* that is the string's last character.
PatternMatches(chars) ==
    \E n \in 0..Len(chars) :
        /\ \A i \in 1..n : ~IsWhitespace(chars[i])
        /\ \/ n = Len(chars)
           \/ n = Len(chars) - 1 /\ chars[Len(chars)] = "\n"

\* validate_json: the schema asks for an object whose every value is a
\* string matching the pattern.
validate_json(json_data) ==
    /\ json_data.kind = "object"
    /\ \A i \in 1..Len(json_data.values) :
          /\ json_data.values[i].kind = "string"
          /\ PatternMatches(json_data.values[i].chars)

\* str.lower on one character of the sample alphabet.
LowerChar(c) == IF c = "D" THEN "d" ELSE c

Lower(chars) == [i \in 1..Len(chars) |-> LowerChar(chars[i])]

\* pd.DataFrame(data, columns=['word 1', 'word 2']): the rows are padded
\* with None to the longest one, and the frame is built only if that width
\* is the number of columns (an empty list builds an empty frame);
\* otherwise pandas raises ValueError.
FrameWidth(rows) == IF rows = <<>> THEN 2 ELSE Max({Len(rows[i]) : i \in 1..Len(rows)})

\* x.astype(str).str.lower() on one cell: a padded None becomes "none".
NoneText == <<"n", "o", "n", "e">>

Cell(row, j) == IF j <= Len(row) THEN Lower(row[j].chars) ELSE NoneText

LoadInit ==
    /\ pc = "load_loop"
    /\ json_objects \in SeqsUpTo(SampleRecords, MaxRecords)
    /\ obj_index = 0
    /\ data = <<>>
    /\ printed = NoneValue
    /\ load_result = NoneValue
    /\ IdleGraph /\ IdleStream /\ IdleColour /\ IdleType /\ IdleLayout

\* for json_object in json_objects: a valid record is appended.
LoadAppend ==
    /\ pc = "load_loop"
    /\ obj_index < Len(json_objects)
    /\ validate_json(json_objects[obj_index + 1])
    /\ data' = Append(data, json_objects[obj_index + 1].values)
    /\ obj_index' = obj_index + 1
    /\ UNCHANGED <<pc, json_objects, printed, load_result>>
    /\ UNCHANGED <<graphVars, streamVars, colourVars, typeVars, layoutVars>>

\* ... an invalid record is printed and the function returns None.
LoadReject ==
    /\ pc = "load_loop"
    /\ obj_index < Len(json_objects)
    /\ ~validate_json(json_objects[obj_index + 1])
    /\ printed' = json_objects[obj_index + 1]
    /\ load_result' = NoneValue
    /\ pc' = "load_done"
    /\ UNCHANGED <<json_objects, obj_index, data>>
    /\ UNCHANGED <<graphVars, streamVars, colourVars, typeVars, layoutVars>>

\* After the loop: the frame is built and lowercased, or pandas raises.
LoadFrame ==
    /\ pc = "load_loop"
    /\ obj_index = Len(json_objects)
    /\ load_result' =
          IF FrameWidth(data) = 2
          THEN [kind |-> "table",
                rows |-> [i \in 1..Len(data) |-> <<Cell(data[i], 1), Cell(data[i], 2)>>]]
          ELSE [kind |-> "raised", rows |-> <<>>]
    /\ pc' = "load_done"
    /\ UNCHANGED <<json_objects, obj_index, data, printed>>
    /\ UNCHANGED <<graphVars, streamVars, colourVars, typeVars, layoutVars>>

LoadNext == LoadAppend \/ LoadReject \/ LoadFrame

SpecLoad == LoadInit /\ [][LoadNext]_vars

(***************************************************************************)
(* C5: file_to_df is all-or-nothing.  If some record is not an object      *)
(* whose every value is a whitespace-free string, no table is produced and *)
(* the first such record is reported; if every record is such an object,   *)
(* the result is a table with one row per record, in input order, holding  *)
(* the record's two words lowercased.                                      *)
(***************************************************************************)
WhitespaceFree(chars) == \A i \in 1..Len(chars) : ~IsWhitespace(chars[i])

\* The validation the claim states.
RecordIsValid(r) ==
    /\ r.kind = "object"
    /\ \A i \in 1..Len(r.values) :
          r.values[i].kind = "string" /\ WhitespaceFree(r.values[i].chars)

Offending == {i \in 1..Len(json_objects) : ~RecordIsValid(json_objects[i])}

C5_AllOrNothing ==
    pc = "load_done" =>
        IF Offending # {}
        THEN /\ load_result = NoneValue
             /\ printed = json_objects[CHOOSE i \in Offending : \A j \in Offending : i <= j]
        ELSE /\ load_result.kind = "table"
             /\ Len(load_result.rows) = Len(json_objects)
             /\ \A i \in 1..Len(json_objects) :
                   /\ Len(json_objects[i].values) = 2
                   /\ load_result.rows[i] =
                         << Lower(json_objects[i].values[1].chars),
                            Lower(json_objects[i].values[2].chars) >>

(***************************************************************************)
(*          mindset_streams.py: edge_valence, create_base_graph            *)
(***************************************************************************)
MaxRows == 2         \* rows of the association table

Valences == {"neutral", "positive", "negative"}

GraphWords == {"cat", "dog", "owl"}

\* An undirected edge is the set of its endpoints (one element: a self-loop).
Edge(u, v) == {u, v}

\* np.select's condition list (lines 19-29) as the pairs each tests, and its
\* value list (lines 31-33), position by position.
conditions ==
    << <<"neutral", "neutral">>,  <<"neutral", "positive">>,  <<"neutral", "negative">>,
       <<"positive", "neutral">>, <<"positive", "positive">>, <<"positive", "negative">>,
       <<"negative", "neutral">>, <<"negative", "positive">>, <<"negative", "negative">> >>

valuesSwapped ==
    << "neutral", "neutral", "neutral",
       "neutral", "positive", "conflicting",
       "neutral", "negative", "conflicting" >>

values ==
    << "neutral", "neutral", "neutral",
       "neutral", "positive", "conflicting",
       "neutral", "conflicting", "negative" >>

\* np.select(conditions, values) on one row: the value of the first
\* condition that holds, and the default 0 (as text, with the numpy 1.23
\* the package asks for) when none does.
np_select(v1, v2) ==
    LET hits == {i \in 1..Len(conditions) : conditions[i] = <<v1, v2>>}
    IN  IF hits = {} THEN "0"
        ELSE values[CHOOSE i \in hits : \A j \in hits : i <= j]

\* edge_valence(df): the column 'edge valence' is added to every row.
edge_valence(d) ==
    [i \in 1..Len(d) |->
        [word1 |-> d[i].word1, word2 |-> d[i].word2,
         word1_valence |-> d[i].word1_valence, word2_valence |-> d[i].word2_valence,
         edge_valence |-> np_select(d[i].word1_valence, d[i].word2_valence)]]

\* A graph: its nodes, the nodes' 'valence' attribute ("unset" until
\* assigned), its edges and the edges' 'edge valence' attribute.
EmptyGraph ==
    [kind |-> "graph", nodes |-> {}, valence |-> << >>, edges |-> {},
     edge_valence |-> << >>]

\* G.add_edge(u, v, **{'edge valence': ev}): both nodes are added, and the
\* attribute of an edge already present is overwritten.
add_edge(g, u, v, ev) ==
    [kind |-> "graph",
     nodes |-> g.nodes \cup {u, v},
     valence |-> [n \in g.nodes \cup {u, v} |->
                     IF n \in g.nodes THEN g.valence[n] ELSE "unset"],
     edges |-> g.edges \cup {Edge(u, v)},
     edge_valence |-> [e \in g.edges \cup {Edge(u, v)} |->
                     IF e = Edge(u, v) THEN ev ELSE g.edge_valence[e]]]

\* nx.from_pandas_edgelist(df, 'word 1', 'word 2', edge_attr='edge valence'):
\* one add_edge per row, in row order.
RECURSIVE from_pandas_edgelist(_, _)
from_pandas_edgelist(d, n) ==
    IF n = 0 THEN EmptyGraph
    ELSE add_edge(from_pandas_edgelist(d, n - 1), d[n].word1, d[n].word2,
                  d[n].edge_valence)

\* G.nodes[w]['valence'] = v
set_valence(g, w, v) == [g EXCEPT !.valence[w] = v]

\* The table before edge_valence: each word carries its one valence.
TableOf(rows, val) ==
    [i \in 1..Len(rows) |->
        [word1 |-> rows[i][1], word2 |-> rows[i][2],
         word1_valence |-> val[rows[i][1]], word2_valence |-> val[rows[i][2]]]]

GraphInit ==
    /\ pc = "edge_valence"
    /\ \E val \in [GraphWords -> Valences] :
       \E rows \in SeqsUpTo(GraphWords \X GraphWords, MaxRows) :
          df = TableOf(rows, val)
    /\ G = NoneValue
    /\ row_index = 0
    /\ IdleLoad /\ IdleStream /\ IdleColour /\ IdleType /\ IdleLayout

\* df = edge_valence(df)
GraphEdgeValence ==
    /\ pc = "edge_valence"
    /\ df' = edge_valence(df)
    /\ pc' = "from_edgelist"
    /\ UNCHANGED <<G, row_index>>
    /\ UNCHANGED <<loadVars, streamVars, colourVars, typeVars, layoutVars>>

\* create_base_graph, line 48
GraphFromEdgelist ==
    /\ pc = "from_edgelist"
    /\ G' = from_pandas_edgelist(df, Len(df))
    /\ pc' = "iterrows"
    /\ UNCHANGED <<df, row_index>>
    /\ UNCHANGED <<loadVars, streamVars, colourVars, typeVars, layoutVars>>

\* create_base_graph, lines 50-52: one row of the iterrows loop
GraphSetValence ==
    /\ pc = "iterrows"
    /\ row_index < Len(df)
    /\ LET row == df[row_index + 1]
       IN  G' = set_valence(set_valence(G, row.word1, row.word1_valence),
                            row.word2, row.word2_valence)
    /\ row_index' = row_index + 1
    /\ UNCHANGED <<pc, df>>
    /\ UNCHANGED <<loadVars, streamVars, colourVars, typeVars, layoutVars>>

\* create_base_graph, line 54: return G
GraphReturn ==
    /\ pc = "iterrows"
    /\ row_index = Len(df)
    /\ pc' = "graph_done"
    /\ UNCHANGED <<df, G, row_index>>
    /\ UNCHANGED <<loadVars, streamVars, colourVars, typeVars, layoutVars>>

GraphNext == GraphEdgeValence \/ GraphFromEdgelist \/ GraphSetValence \/ GraphReturn

SpecGraph == GraphInit /\ [][GraphNext]_vars

(***************************************************************************)
(* C4: in the base graph built by edge_valence and create_base_graph from  *)
(* a table in which each word has one valence, every edge {u, v} carries   *)
(* the edge valence the 3x3 table of the specification gives for the node  *)
(* valences of u and v, whichever endpoint was word 1 and however the      *)
(* records are ordered or repeated; and that table is symmetric.           *)
(***************************************************************************)
\* The table of the specification, section 4.2.
SpecTable(a, b) ==
    IF a = "neutral" \/ b = "neutral" THEN "neutral"
    ELSE IF a = b THEN a
    ELSE "conflicting"

C4_EdgeValenceMatchesTable ==
    pc = "graph_done" =>
        /\ \A e \in G.edges : \A u, v \in e :
              (e = Edge(u, v)) =>
                 G.edge_valence[e] = SpecTable(G.valence[u], G.valence[v])
        /\ \A a, b \in Valences : np_select(a, b) = np_select(b, a)
        /\ G.edges = {Edge(df[i].word1, df[i].word2) : i \in 1..Len(df)}

\* Witness: a finished graph that holds a conflicting edge entered with the
\* negative word first, and a repeated record.
C4_Witness ==
    /\ pc = "graph_done"
    /\ \E i, j \in 1..Len(df) :
          /\ i < j
          /\ Edge(df[i].word1, df[i].word2) = Edge(df[j].word1, df[j].word2)
          /\ df[i].word1 # df[j].word1
          /\ df[j].word1_valence = "negative"
          /\ df[j].word2_valence = "positive"
          /\ G.edge_valence[Edge(df[j].word1, df[j].word2)] = "conflicting"

(***************************************************************************)
(*     mindset_streams.py: shortest_paths, bridge_graph, stream_graph      *)
(***************************************************************************)
NumWords == 4        \* words the base graph is drawn over

WordList == <<"cat", "dog", "owl", "positive", "wolf", "fox", "negative">>

Words == {WordList[i] : i \in 1..NumWords}

\* G[v]: the neighbours of v (v itself when it carries a self-loop).
Adj(g, v) == {w \in g.nodes : Edge(v, w) \in g.edges}

\* nx.predecessor(G, source), the breadth-first search all_shortest_paths
\* runs: one round of its while loop per level.  A node first seen from
\* this level gets every node of the level adjacent to it as predecessor;
\* a node seen earlier (a self-loop's own node too) gets none.
RECURSIVE predecessor_loop(_, _, _, _)
predecessor_loop(g, thislevel, seen, pred) ==
    LET nextlevel == {w \in UNION {Adj(g, v) : v \in thislevel} : w \notin seen}
        pred2 == [w \in seen \cup nextlevel |->
                     IF w \in seen THEN pred[w]
                     ELSE {v \in thislevel : w \in Adj(g, v)}]
    IN  IF nextlevel = {} THEN pred
        ELSE predecessor_loop(g, nextlevel, seen \cup nextlevel, pred2)

predecessor(g, source) ==
    predecessor_loop(g, {source}, {source}, [w \in {source} |-> {}])

\* _build_paths_from_predecessors: every chain target, pred, ..., source,
\* reversed.
RECURSIVE build_paths(_, _, _)
build_paths(pred, source, n) ==
    IF n = source THEN {<<source>>}
    ELSE {Append(p, n) : p \in UNION {build_paths(pred, source, u) : u \in pred[n]}}

\* nx.all_shortest_paths raises NodeNotFound when source is not in G and
\* NetworkXNoPath when the search never reaches target.
shortest_paths_raises(g, source, target) ==
    \/ source \notin g.nodes
    \/ target \notin DOMAIN predecessor(g, source)

\* A bug to tell apart: nx.shortest_path, which returns one path only.
shortest_paths_single(g, source, target) ==
    LET all == build_paths(predecessor(g, source), source, target)
    IN  {CHOOSE p \in all : TRUE}

\* shortest_paths(G, source, target): the list of every path
\* nx.all_shortest_paths yields (no path is yielded twice; the list is
\* kept as the set of its elements).
shortest_paths(g, source, target) ==
    build_paths(predecessor(g, source), source, target)

\* graph.subgraph(path): the subgraph induced by the nodes of one path.
induced_subgraph(g, ns) ==
    [kind |-> "graph",
     nodes |-> g.nodes \cap ns,
     valence |-> [n \in g.nodes \cap ns |-> g.valence[n]],
     edges |-> {e \in g.edges : e \subseteq ns},
     edge_valence |-> [e \in {e \in g.edges : e \subseteq ns} |-> g.edge_valence[e]]]

\* nx.compose(a, b): nodes and edges of both; b's attributes win.
compose(a, b) ==
    [kind |-> "graph",
     nodes |-> a.nodes \cup b.nodes,
     valence |-> [n \in a.nodes \cup b.nodes |->
                     IF n \in b.nodes THEN b.valence[n] ELSE a.valence[n]],
     edges |-> a.edges \cup b.edges,
     edge_valence |-> [e \in a.edges \cup b.edges |->
                     IF e \in b.edges THEN b.edge_valence[e] ELSE a.edge_valence[e]]]

\* bridge_graph, lines 85-87: the loop over paths[1:].
RECURSIVE bridge_loop(_, _, _)
bridge_loop(graph, sub, rest) ==
    IF rest = {} THEN sub
    ELSE LET p == CHOOSE q \in rest : TRUE
         IN  bridge_loop(graph, compose(sub, induced_subgraph(graph, Range(p))),
                         rest \ {p})

\* A bug to tell apart: the loop over paths[1:] forgotten.
bridge_graph_first(graph, ps) ==
    LET first == CHOOSE q \in ps : TRUE
    IN  induced_subgraph(graph, Range(first))

\* bridge_graph(graph, paths)
bridge_graph(graph, ps) ==
    LET first == CHOOSE q \in ps : TRUE
    IN  bridge_loop(graph, induced_subgraph(graph, Range(first)), ps \ {first})

\* subgraph.remove_edges_from(nx.selfloop_edges(subgraph))
remove_selfloops(g) ==
    [kind |-> "graph", nodes |-> g.nodes, valence |-> g.valence,
     edges |-> {e \in g.edges : Cardinality(e) = 2},
     edge_valence |-> [e \in {e \in g.edges : Cardinality(e) = 2} |-> g.edge_valence[e]]]

\* The base graph create_base_graph builds from a table whose records are
\* the edges es and whose words carry the valences val: its nodes are the
\* words of the records.
BaseGraphOf(es, val) ==
    [kind |-> "graph",
     nodes |-> UNION es,
     valence |-> [n \in UNION es |-> val[n]],
     edges |-> es,
     edge_valence |-> [e \in es |->
         LET u == CHOOSE x \in e : TRUE
             v == CHOOSE y \in e : e = {u, y}
         IN  np_select(val[u], val[v])]]

\* The word pairs, and the base graphs over Words: any set of edges
\* between distinct words, and at most one self-loop.  The graphs are drawn
\* over every labelling of the words, so the source is taken to be the
\* first word; the target is any word, the source included.
WordPairs == {e \in SUBSET Words : Cardinality(e) = 2}

EdgeSets == {es \cup loop : es \in SUBSET WordPairs,
                            loop \in {{}} \cup {{{w}} : w \in Words}}

PathsInit ==
    /\ pc = "base_paths"
    /\ \E es \in EdgeSets : base_graph = BaseGraphOf(es, [w \in Words |-> "neutral"])
    /\ source_node = WordList[1]
    /\ target_node \in Words
    /\ base_paths = {} /\ subgraph = NoneValue /\ sub_paths = {}
    /\ node_dict = NoneValue /\ node_colour_dict = NoneValue
    /\ edge_colour_dict = NoneValue /\ stats_list = NoneValue
    /\ IdleLoad /\ IdleGraph /\ IdleColour /\ IdleType /\ IdleLayout

\* stream_graph, line 327
StreamBasePaths ==
    /\ pc = "base_paths"
    /\ IF shortest_paths_raises(base_graph, source_node, target_node)
       THEN pc' = "base_paths_raised" /\ UNCHANGED base_paths
       ELSE /\ base_paths' = shortest_paths(base_graph, source_node, target_node)
            /\ pc' = "subgraph"
    /\ UNCHANGED <<base_graph, source_node, target_node, subgraph, sub_paths,
                   node_dict, node_colour_dict, edge_colour_dict, stats_list>>
    /\ UNCHANGED <<loadVars, graphVars, colourVars, typeVars, layoutVars>>

\* stream_graph, lines 328-329 (lines 332-333, the closeness centralities
\* of the base graph, read the graphs and raise nothing)
StreamSubgraph ==
    /\ pc = "subgraph"
    /\ subgraph' = remove_selfloops(bridge_graph(base_graph, base_paths))
    /\ pc' = "sub_paths"
    /\ UNCHANGED <<base_graph, source_node, target_node, base_paths, sub_paths,
                   node_dict, node_colour_dict, edge_colour_dict, stats_list>>
    /\ UNCHANGED <<loadVars, graphVars, colourVars, typeVars, layoutVars>>

\* stream_graph, line 336
StreamSubPaths ==
    /\ pc = "sub_paths"
    /\ IF shortest_paths_raises(subgraph, source_node, target_node)
       THEN pc' = "sub_paths_raised" /\ UNCHANGED sub_paths
       ELSE /\ sub_paths' = shortest_paths(subgraph, source_node, target_node)
            /\ pc' = "node_positions"
    /\ UNCHANGED <<base_graph, source_node, target_node, base_paths, subgraph,
                   node_dict, node_colour_dict, edge_colour_dict, stats_list>>
    /\ UNCHANGED <<loadVars, graphVars, colourVars, typeVars, layoutVars>>

PathsNext == StreamBasePaths \/ StreamSubgraph \/ StreamSubPaths

SpecPaths == PathsInit /\ [][PathsNext]_vars

(***************************************************************************)
(* Brute force, for the claims: every simple path from s, grown one node   *)
(* at a time, and the shortest of those that end at t.                     *)
(***************************************************************************)
RECURSIVE GrowSimplePaths(_, _, _)
GrowSimplePaths(g, frontier, found) ==
    LET next == {Append(p, w) : p \in frontier, w \in g.nodes}
        ok == {p \in next : /\ p[Len(p)] \notin Range(SubSeq(p, 1, Len(p) - 1))
                            /\ Edge(p[Len(p) - 1], p[Len(p)]) \in g.edges}
    IN  IF ok = {} THEN found ELSE GrowSimplePaths(g, ok, found \cup ok)

SimplePaths(g, s, t) ==
    IF s \notin g.nodes THEN {}
    ELSE {p \in GrowSimplePaths(g, {<<s>>}, {<<s>>}) : p[Len(p)] = t}

Connected(g, s, t) == SimplePaths(g, s, t) # {}

Distance(g, s, t) ==
    CHOOSE d \in {Len(p) - 1 : p \in SimplePaths(g, s, t)} :
        \A p \in SimplePaths(g, s, t) : d <= Len(p) - 1

(***************************************************************************)
(* C1: for nodes source and target connected in G, shortest_paths returns  *)
(* exactly the source-to-target paths whose length is the shortest-path    *)
(* distance: each returned path has that length and none of them is        *)
(* missing.                                                                *)
(***************************************************************************)
C1_AllShortestPaths ==
    /\ (pc = "subgraph" /\ Connected(base_graph, source_node, target_node)) =>
          base_paths = {p \in SimplePaths(base_graph, source_node, target_node) :
                          Len(p) - 1 = Distance(base_graph, source_node, target_node)}
    /\ pc = "base_paths_raised" => ~Connected(base_graph, source_node, target_node)

\* Witness: two or more shortest paths of two or more edges were returned,
\* and a longer path exists as well.
C1_Witness ==
    /\ pc = "subgraph"
    /\ Cardinality(base_paths) >= 2
    /\ \E p \in base_paths : Len(p) >= 3
    /\ \E p \in SimplePaths(base_graph, source_node, target_node) :
          Len(p) - 1 > Distance(base_graph, source_node, target_node)

PathNodes == UNION {Range(p) : p \in base_paths}

(***************************************************************************)
(* C7 as stated: the subgraph stream_graph builds is the induced graph     *)
(* over the union of the nodes of the shortest paths: two distinct such    *)
(* nodes are joined in the subgraph if and only if they are joined in the  *)
(* base graph, and the subgraph has no self-loops.                         *)
(***************************************************************************)
C7_InducedOverUnion ==
    pc = "sub_paths" =>
        /\ subgraph.nodes = PathNodes
        /\ \A u, v \in PathNodes :
              u # v => (Edge(u, v) \in subgraph.edges <=> Edge(u, v) \in base_graph.edges)
        /\ \A e \in subgraph.edges : Cardinality(e) = 2

(***************************************************************************)
(* C7 as amended: the subgraph is the union of the subgraphs induced by    *)
(* each shortest path: two distinct nodes are joined in the subgraph if    *)
(* and only if they are joined in the base graph and occur together in one *)
(* shortest path; the subgraph has no self-loops.                          *)
(***************************************************************************)
C7_UnionOfPathSubgraphs ==
    pc = "sub_paths" =>
        /\ subgraph.nodes = PathNodes
        /\ \A u, v \in PathNodes :
              u # v => (Edge(u, v) \in subgraph.edges <=>
                           /\ Edge(u, v) \in base_graph.edges
                           /\ \E p \in base_paths : {u, v} \subseteq Range(p))
        /\ \A e \in subgraph.edges : Cardinality(e) = 2

\* Witness: two nodes of different shortest paths joined in the base graph
\* and not in the subgraph, and a self-loop of the base graph on a path node.
C7_Witness ==
    /\ pc = "sub_paths"
    /\ Cardinality(base_paths) >= 2
    /\ \E u, v \in PathNodes :
          u # v /\ Edge(u, v) \in base_graph.edges /\ Edge(u, v) \notin subgraph.edges
    /\ \E u \in PathNodes : {u} \in base_graph.edges

\* The subgraph's shortest paths are the base graph's.
SubPathsAreBasePaths ==
    /\ pc = "node_positions" => sub_paths = base_paths
    /\ pc # "sub_paths_raised"

(***************************************************************************)
(*                  mindset_streams.py: edge_colours                       *)
(***************************************************************************)
MaxEdges == 4        \* edges of the graph edge_colours is given

EdgeValences == {"neutral", "positive", "negative", "conflicting"}

\* Lines 205-210: the if/elif chain assigns colour for three of the four
\* edge valences and leaves it as it was for any other.
assign_colour(previous, valence) ==
    IF valence = "positive" THEN "tab:blue"
    ELSE IF valence = "neutral" THEN "tab:grey"
    ELSE IF valence = "negative" THEN "tab:red"
    ELSE previous

\* Line 211: edge_colour_dict[(source, target)] = colour
put(dict, key, value) ==
    [k \in DOMAIN dict \cup {key} |-> IF k = key THEN value ELSE dict[k]]

\* The whole loop over a list of (key, valence) edges, from the state
\* (colour, dict): the dictionary, or "raised" when line 211 reads colour
\* before any branch has assigned it (UnboundLocalError).
RECURSIVE edge_colours_loop(_, _, _, _)
edge_colours_loop(edges, i, col, dict) ==
    IF i > Len(edges) THEN [kind |-> "dict", dict |-> dict]
    ELSE LET c == assign_colour(col, edges[i].valence)
         IN  IF c = "unbound" THEN [kind |-> "raised", dict |-> dict]
             ELSE edge_colours_loop(edges, i + 1, c, put(dict, edges[i].key, c))

edge_colours(edges) == edge_colours_loop(edges, 1, "unbound", << >>)

\* The graphs edge_colours is run on here: edge i joins nodes <<i, "a">>
\* and <<i, "b">>, and graph.edges(data=True) yields the edges in order.
ColoursInit ==
    /\ pc = "edge_colours_loop"
    /\ \E vs \in SeqsUpTo(EdgeValences, MaxEdges) :
          edge_list = [i \in 1..Len(vs) |->
                          [key |-> << <<i, "a">>, <<i, "b">> >>, valence |-> vs[i]]]
    /\ edge_index = 0
    /\ colour = "unbound"
    /\ colour_dict = << >>
    /\ IdleLoad /\ IdleGraph /\ IdleStream /\ IdleType /\ IdleLayout

\* One turn of the for loop, lines 203-211.
ColoursStep ==
    /\ pc = "edge_colours_loop"
    /\ edge_index < Len(edge_list)
    /\ LET e == edge_list[edge_index + 1]
           c == assign_colour(colour, e.valence)
       IN  IF c = "unbound"
           THEN /\ pc' = "edge_colours_raised"
                /\ UNCHANGED <<colour, colour_dict, edge_index>>
           ELSE /\ colour' = c
                /\ colour_dict' = put(colour_dict, e.key, c)
                /\ edge_index' = edge_index + 1
                /\ pc' = pc
    /\ UNCHANGED edge_list
    /\ UNCHANGED <<loadVars, graphVars, streamVars, typeVars, layoutVars>>

\* Line 213: return edge_colour_dict
ColoursReturn ==
    /\ pc = "edge_colours_loop"
    /\ edge_index = Len(edge_list)
    /\ pc' = "edge_colours_done"
    /\ UNCHANGED colourVars
    /\ UNCHANGED <<loadVars, graphVars, streamVars, typeVars, layoutVars>>

ColoursNext == ColoursStep \/ ColoursReturn

SpecColours == ColoursInit /\ [][ColoursNext]_vars

(***************************************************************************)
(* C9: on a graph whose edges carry an edge valence in {neutral, positive, *)
(* negative, conflicting}, edge_colours completes without error and every  *)
(* edge gets a colour that is a function of its own valence alone: two     *)
(* edges of one valence get one colour, whatever was iterated before them. *)
(***************************************************************************)
C9_ColourByOwnValence ==
    /\ pc # "edge_colours_raised"
    /\ pc = "edge_colours_done" =>
          /\ DOMAIN colour_dict = {edge_list[i].key : i \in 1..Len(edge_list)}
          /\ \A i, j \in 1..Len(edge_list) :
                edge_list[i].valence = edge_list[j].valence =>
                   colour_dict[edge_list[i].key] = colour_dict[edge_list[j].key]

(***************************************************************************)
(*                    mindset_streams.py: path_type                        *)
(***************************************************************************)
MaxPathLen == 3      \* nodes of the path path_type is given

\* Lines 287-305, on the path and the valences read along it.  Line 299
\* tests the valences for 'negative' and the path's nodes, not their
\* valences, for 'positive'.
classify_any_neutral(p, valences) ==
    IF \A i \in 1..Len(valences) : valences[i] = "positive" THEN "purely positive path"
    ELSE IF \E i \in 1..Len(valences) : valences[i] = "neutral" THEN "purely neutral path"
    ELSE IF \A i \in 1..Len(valences) : valences[i] = "negative" THEN "purely negative path"
    ELSE IF (\E i \in 1..Len(valences) : valences[i] = "negative")
            /\ (\E i \in 1..Len(p) : p[i] = "positive") THEN "conflicting path"
    ELSE "mixed path"

classify(p, valences) ==
    IF \A i \in 1..Len(valences) : valences[i] = "positive" THEN "purely positive path"
    ELSE IF \A i \in 1..Len(valences) : valences[i] = "neutral" THEN "purely neutral path"
    ELSE IF \A i \in 1..Len(valences) : valences[i] = "negative" THEN "purely negative path"
    ELSE IF (\E i \in 1..Len(valences) : valences[i] = "negative")
            /\ (\E i \in 1..Len(p) : p[i] = "positive") THEN "conflicting path"
    ELSE "mixed path"

\* Lines 280-284: the valence of each node of the path, read from the
\* subgraph's node attributes.
read_valences(p, valence) == [i \in 1..Len(p) |-> valence[p[i]]]

\* path_type(path, subgraph)
path_type(p, valence) == classify(p, read_valences(p, valence))

\* The simple paths over Words of at most n nodes.
DistinctSeqs(S, n) ==
    {q \in SeqsUpTo(S, n) : q # <<>> /\ \A i, j \in 1..Len(q) : i # j => q[i] # q[j]}

TypeInit ==
    /\ pc = "read_valences"
    /\ path \in DistinctSeqs(Words, MaxPathLen)
    /\ node_valence \in [Words -> Valences]
    /\ path_valences = <<>>
    /\ path_type_result = "unset"
    /\ IdleLoad /\ IdleGraph /\ IdleStream /\ IdleColour /\ IdleLayout

TypeReadValences ==
    /\ pc = "read_valences"
    /\ path_valences' = read_valences(path, node_valence)
    /\ pc' = "classify"
    /\ UNCHANGED <<path, node_valence, path_type_result>>
    /\ UNCHANGED <<loadVars, graphVars, streamVars, colourVars, layoutVars>>

TypeClassify ==
    /\ pc = "classify"
    /\ path_type_result' = classify(path, path_valences)
    /\ pc' = "type_done"
    /\ UNCHANGED <<path, node_valence, path_valences>>
    /\ UNCHANGED <<loadVars, graphVars, streamVars, colourVars, layoutVars>>

TypeNext == TypeReadValences \/ TypeClassify

SpecType == TypeInit /\ [][TypeNext]_vars

ValencesOnPath == {node_valence[path[i]] : i \in 1..Len(path)}

(***************************************************************************)
(* C2: for a path that is not all-positive, all-neutral or all-negative,   *)
(* path_type returns 'conflicting path' when a negative node and a         *)
(* positive node both occur on the path, and 'mixed path' otherwise; the   *)
(* decision rests on the valences alone, never on the nodes' names.        *)
(***************************************************************************)
C2_ConflictingByValence ==
    (pc = "type_done" /\ Cardinality(ValencesOnPath) > 1) =>
        path_type_result =
            IF {"negative", "positive"} \subseteq ValencesOnPath
            THEN "conflicting path" ELSE "mixed path"

(***************************************************************************)
(* C3: for a non-empty path with resolved valences path_type returns one   *)
(* of the five labels; 'purely positive path' exactly when every node is   *)
(* positive, 'purely neutral path' exactly when every node is neutral,     *)
(* 'purely negative path' exactly when every node is negative.             *)
(***************************************************************************)
C3_TotalAndPure ==
    pc = "type_done" =>
        /\ path_type_result \in
              {"purely positive path", "purely neutral path", "purely negative path",
               "conflicting path", "mixed path"}
        /\ path_type_result = "purely positive path" <=> ValencesOnPath = {"positive"}
        /\ path_type_result = "purely neutral path" <=> ValencesOnPath = {"neutral"}
        /\ path_type_result = "purely negative path" <=> ValencesOnPath = {"negative"}

\* Witness: a path of several nodes, one of them neutral, that is not
\* purely neutral, has been classified.
C3_Witness ==
    /\ pc = "type_done"
    /\ Len(path) >= 2
    /\ "neutral" \in ValencesOnPath
    /\ Cardinality(ValencesOnPath) = 3
    /\ path_type_result \in {"conflicting path", "mixed path"}

(***************************************************************************)
(*                  mindset_streams.py: node_positions                     *)
(*                                                                         *)
(* Coordinates are kept as exact fractions <<numerator, denominator>>      *)
(* where the code computes them in floating point.                         *)
(***************************************************************************)
MaxLayers == 9       \* layers of the longest chain laid out
MaxPaths == 3        \* paths in a set drawn over the pool

Frac(a, b) == <<a, b>>

FracEq(p, q) == p[1] * q[2] = q[1] * p[2]

FracLeq(p, q) == p[1] * q[2] <= q[1] * p[2]

Position(x, y) == [x |-> x, y |-> y]

SamePosition(a, b) == FracEq(a.x, b.x) /\ FracEq(a.y, b.y)

\* Lines 140-141
SourcePosition == Position(Frac(1, 10), Frac(1, 2))

TargetPosition == Position(Frac(9, 10), Frac(1, 2))

\* Line 149: x_position = (1/(num_layers + 1)) * (i + 1), layer counted
\* from 1 here
x_position(num_layers, layer) == Frac(layer, num_layers + 1)

\* A bug to tell apart: the + 1 of line 157's node_number + 1 left out.
y_position_from_zero(size, node_number) == Frac(size + 1 - node_number, size + 1)

\* Line 157: y_position = 1 - ((1/(len(layer) + 1)) * (node_number + 1))
y_position(size, node_number) == Frac(size + 1 - (node_number + 1), size + 1)

\* Line 108
num_layers_of(ps) == Len(CHOOSE p \in ps : TRUE) - 2

\* Lines 113-124: the node at index 0 of each path is a source node, the
\* nodes at indices 1..num_layers are layer nodes, and the next node is a
\* target node, after which the path is left.
source_nodes(ps) == {p[1] : p \in ps}

layer_nodes(ps, layer) == {p[layer + 1] : p \in {q \in ps : Len(q) >= layer + 1}}

target_index(ps) == IF num_layers_of(ps) >= 0 THEN num_layers_of(ps) + 2 ELSE 2

target_nodes(ps) == {p[target_index(ps)] : p \in {q \in ps : Len(q) >= target_index(ps)}}

\* list(set(l)): the elements of a set in an order the hash seed decides.
Orders(S) == {f \in [1..Cardinality(S) -> S] : \A i, j \in DOMAIN f : i # j => f[i] # f[j]}

\* Lines 156-160 for one layer taken in the order ord.
RECURSIVE place_layer(_, _, _, _)
place_layer(dict, x, ord, n) ==
    IF n = 0 THEN dict
    ELSE put(place_layer(dict, x, ord, n - 1), ord[n],
             Position(x, y_position(Len(ord), n - 1)))

\* Lines 152-162: the layers from the given one on, for every order the
\* sets may come in: the set of dictionaries the loop may end with.
RECURSIVE place_layers(_, _, _)
place_layers(ps, layer, dicts) ==
    IF layer > num_layers_of(ps) THEN dicts
    ELSE place_layers(ps, layer + 1,
            {place_layer(d, x_position(num_layers_of(ps), layer), ord, Len(ord)) :
                d \in dicts, ord \in Orders(layer_nodes(ps, layer))})

\* list(set(target_nodes))[0] raises IndexError on an empty list (a path
\* of the single node source = target).
node_positions_raises(ps) == target_nodes(ps) = {}

\* node_positions(paths): the dictionaries it may return.
node_positions(ps) ==
    place_layers(ps, 1,
        {put(put(<< >>, s, SourcePosition), t, TargetPosition) :
            s \in source_nodes(ps), t \in target_nodes(ps)})

\* Inputs.  Any set of at most MaxPaths simple paths of one length from
\* "s" to "t" over a pool of three nodes; and the chains of up to MaxLayers
\* layers, one layer of which (wide, if not 0) holds two nodes.
Pool == {"n1", "m1", "n2"}

LayerNames == <<"n1", "n2", "n3", "n4", "n5", "n6", "n7", "n8", "n9", "n10", "n11", "n12">>

SecondNames == <<"m1", "m2", "m3", "m4", "m5", "m6", "m7", "m8", "m9", "m10", "m11", "m12">>

PoolPaths(len) ==
    {<<"s">> \o q \o <<"t">> : q \in {r \in DistinctSeqs(Pool, len) \cup {<<>>} : Len(r) = len}}

PoolPathSets ==
    UNION {{ps \in SUBSET PoolPaths(len) : ps # {} /\ Cardinality(ps) <= MaxPaths} :
              len \in 0..Cardinality(Pool)}

Chain(len, wide) ==
    {<<"s">> \o [i \in 1..len |-> IF i = wide /\ second THEN SecondNames[i] ELSE LayerNames[i]]
        \o <<"t">> : second \in IF wide = 0 THEN {FALSE} ELSE {FALSE, TRUE}}

Chains == UNION {{Chain(len, wide) : wide \in 0..len} : len \in 0..MaxLayers}

LayoutInit ==
    /\ pc = "node_positions_call"
    /\ paths \in PoolPathSets \cup Chains
    /\ node_positions_dict = NoneValue
    /\ IdleLoad /\ IdleGraph /\ IdleStream /\ IdleColour /\ IdleType

LayoutRun ==
    /\ pc = "node_positions_call"
    /\ ~node_positions_raises(paths)
    /\ node_positions_dict' \in node_positions(paths)
    /\ pc' = "layout_done"
    /\ UNCHANGED paths
    /\ UNCHANGED <<loadVars, graphVars, streamVars, colourVars, typeVars>>

LayoutNext == LayoutRun

SpecLayout == LayoutInit /\ [][LayoutNext]_vars

\* What the layout claims speak of: the nodes of the paths, the nodes at
\* an index, and whether each node keeps one index in every path (as in
\* any set of shortest paths between two nodes).
NodesOf(ps) == UNION {Range(p) : p \in ps}

NodesAt(ps, i) == {p[i] : p \in {q \in ps : Len(q) >= i}}

OneIndexPerNode(ps) ==
    \A p, q \in ps : \A i \in 1..Len(p), j \in 1..Len(q) : p[i] = q[j] => i = j

LayoutAsSpecified(ps, dict) ==
    LET len == Len(CHOOSE p \in ps : TRUE)
    IN  /\ \A p \in ps : SamePosition(dict[p[1]], SourcePosition)
        /\ \A p \in ps : SamePosition(dict[p[len]], TargetPosition)
        /\ \A i \in 2..(len - 1) :
              LET k == Cardinality(NodesAt(ps, i))
              IN  /\ \A n \in NodesAt(ps, i) : FracEq(dict[n].x, Frac(i - 1, len - 1))
                  /\ \A r \in 0..(k - 1) :
                        \E n \in NodesAt(ps, i) : FracEq(dict[n].y, Frac(k - r, k + 1))
                  /\ \A n, m \in NodesAt(ps, i) :
                        n # m => ~FracEq(dict[n].y, dict[m].y)

(***************************************************************************)
(* C6 as stated: for every non-empty set of equal-length paths of at least *)
(* two nodes sharing one source and one target, node_positions puts the    *)
(* source at (0.1, 0.5), the target at (0.9, 0.5), every node at index i   *)
(* (from 0) of a path at x = i/(num_layers + 1), and gives the k distinct  *)
(* nodes of a layer the y-coordinates 1 - (r+1)/(k+1), r = 0..k-1, one     *)
(* each.                                                                   *)
(***************************************************************************)
C6_LayeredLayout ==
    pc = "layout_done" => LayoutAsSpecified(paths, node_positions_dict)

(***************************************************************************)
(* C6 as amended: the same, for the path sets in which every node stands   *)
(* at one index in all the paths that hold it (every set of shortest       *)
(* paths between two nodes is one).                                        *)
(***************************************************************************)
C6_LayeredLayoutOfOneIndexPaths ==
    (pc = "layout_done" /\ OneIndexPerNode(paths)) =>
        LayoutAsSpecified(paths, node_positions_dict)

\* Witness: a one-layer network with two middle nodes, laid out at equal x
\* and at y = 1/3 and 2/3.
C6_Witness ==
    /\ pc = "layout_done"
    /\ paths = {<<"s", "n1", "t">>, <<"s", "m1", "t">>}
    /\ FracEq(node_positions_dict["n1"].x, node_positions_dict["m1"].x)
    /\ \E a, b \in {"n1", "m1"} :
          /\ FracEq(node_positions_dict[a].y, Frac(1, 3))
          /\ FracEq(node_positions_dict[b].y, Frac(2, 3))

(***************************************************************************)
(* C10: for a non-empty set of shortest paths between a source and a       *)
(* distinct target, node_positions returns a mapping whose domain is the   *)
(* union of the paths' nodes, with every coordinate in [0,1] x [0,1] and   *)
(* distinct nodes at distinct coordinates, for any number of layers.       *)
(***************************************************************************)
InUnitInterval(f) == FracLeq(Frac(0, 1), f) /\ FracLeq(f, Frac(1, 1))

C10_DistinctPositions ==
    (pc = "layout_done" /\ OneIndexPerNode(paths)) =>
        /\ DOMAIN node_positions_dict = NodesOf(paths)
        /\ \A n \in NodesOf(paths) :
              /\ InUnitInterval(node_positions_dict[n].x)
              /\ InUnitInterval(node_positions_dict[n].y)
        /\ \A n, m \in NodesOf(paths) :
              n # m => ~SamePosition(node_positions_dict[n], node_positions_dict[m])

(***************************************************************************)
(*        mindset_streams.py: stream_graph, from the base graph on         *)
(***************************************************************************)
\* node_colours(graph), lines 177-188
node_colours(g) ==
    LET coloured == {n \in g.nodes : g.valence[n] \in Valences}
    IN  [n \in coloured |->
            IF g.valence[n] = "positive" THEN "tab:blue"
            ELSE IF g.valence[n] = "neutral" THEN "tab:grey"
            ELSE "tab:red"]

\* graph.edges(data=True) of the subgraph, in the order ord.  The order
\* follows the insertion order of the records and, for the subgraph views
\* bridge_graph composes, the hash order of a set of words: any order is
\* taken to be possible.
EdgeList(g, ord) == [i \in 1..Len(ord) |-> [key |-> ord[i], valence |-> g.edge_valence[ord[i]]]]

\* Lines 364-370: one row per path of sub_paths.  The third column, the
\* rounded sum of edge betweenness centralities, is a number read off the
\* base graph and is left out.
path_stats(ps, g) == {[path |-> p, type |-> path_type(p, g.valence)] : p \in ps}

\* The base graph of a table over Words, every word with one valence; the
\* source is the first word (the graphs are drawn over every labelling).
StreamInit ==
    /\ pc = "base_paths"
    /\ \E es \in SUBSET WordPairs : \E val \in [Words -> Valences] :
          base_graph = BaseGraphOf(es, val)
    /\ source_node = WordList[1]
    /\ target_node \in Words
    /\ base_paths = {} /\ subgraph = NoneValue /\ sub_paths = {}
    /\ node_dict = NoneValue /\ node_colour_dict = NoneValue
    /\ edge_colour_dict = NoneValue /\ stats_list = NoneValue
    /\ IdleLoad /\ IdleGraph /\ IdleColour /\ IdleType /\ IdleLayout

\* stream_graph, line 339
StreamNodePositions ==
    /\ pc = "node_positions"
    /\ IF node_positions_raises(sub_paths)
       THEN pc' = "node_positions_raised" /\ UNCHANGED node_dict
       ELSE /\ node_dict' \in node_positions(sub_paths)
            /\ pc' = "node_colours"
    /\ UNCHANGED <<base_graph, source_node, target_node, base_paths, subgraph,
                   sub_paths, node_colour_dict, edge_colour_dict, stats_list>>
    /\ UNCHANGED <<loadVars, graphVars, colourVars, typeVars, layoutVars>>

\* stream_graph, line 342
StreamNodeColours ==
    /\ pc = "node_colours"
    /\ node_colour_dict' = node_colours(subgraph)
    /\ pc' = "edge_colours"
    /\ UNCHANGED <<base_graph, source_node, target_node, base_paths, subgraph,
                   sub_paths, node_dict, edge_colour_dict, stats_list>>
    /\ UNCHANGED <<loadVars, graphVars, colourVars, typeVars, layoutVars>>

\* stream_graph, line 345 (lines 348-362, the node sizes and the drawing
\* by netgraph and matplotlib, are outside the model)
StreamEdgeColours ==
    /\ pc = "edge_colours"
    /\ \E ord \in Orders(subgraph.edges) :
          LET result == edge_colours(EdgeList(subgraph, ord))
          IN  IF result.kind = "raised"
              THEN pc' = "edge_colours_raised" /\ UNCHANGED edge_colour_dict
              ELSE edge_colour_dict' = result.dict /\ pc' = "stats"
    /\ UNCHANGED <<base_graph, source_node, target_node, base_paths, subgraph,
                   sub_paths, node_dict, node_colour_dict, stats_list>>
    /\ UNCHANGED <<loadVars, graphVars, colourVars, typeVars, layoutVars>>

\* stream_graph, lines 364-375
StreamStats ==
    /\ pc = "stats"
    /\ stats_list' = path_stats(sub_paths, subgraph)
    /\ pc' = "stream_done"
    /\ UNCHANGED <<base_graph, source_node, target_node, base_paths, subgraph,
                   sub_paths, node_dict, node_colour_dict, edge_colour_dict>>
    /\ UNCHANGED <<loadVars, graphVars, colourVars, typeVars, layoutVars>>

StreamNext ==
    \/ StreamBasePaths \/ StreamSubgraph \/ StreamSubPaths
    \/ StreamNodePositions \/ StreamNodeColours \/ StreamEdgeColours \/ StreamStats

SpecStream == StreamInit /\ [][StreamNext]_vars

StreamEnded ==
    pc \in {"stream_done", "base_paths_raised", "sub_paths_raised",
            "node_positions_raised", "edge_colours_raised"}

(***************************************************************************)
(* C8: in stream_graph, for every base graph and every connected pair      *)
(* source # target, the shortest paths recomputed on the subgraph are the  *)
(* shortest paths of the base graph, so that the statistics table has      *)
(* exactly one row per shortest path of the base graph.                    *)
(***************************************************************************)
C8_OneRowPerBasePath ==
    (source_node # target_node /\ Connected(base_graph, source_node, target_node)) =>
        /\ pc \in {"node_positions", "node_colours", "edge_colours", "stats", "stream_done"}
              => sub_paths = base_paths
        /\ StreamEnded =>
              /\ pc = "stream_done"
              /\ {r.path : r \in stats_list} = base_paths
              /\ Cardinality(stats_list) = Cardinality(base_paths)

=============================================================================
